---------------------------- MODULE Spec2Model ----------------------------
(***************************************************************************)
(* A model of the two-pass assembler of src/assembler.py                   *)
(* (class AssemblyCompiler).                                               *)
(*                                                                         *)
(* A Python str is modelled as a sequence of one-character strings, so     *)
(* that split, strip, upper, int(s, base) and format(n, '05b') are         *)
(* computed character by character, as the interpreter computes them.      *)
(* None and the empty str are both modelled by << >>: the code only ever   *)
(* tests a label or an instruction for truthiness or compares it with a    *)
(* non-empty str, and both tests treat None and '' alike.                  *)
(***************************************************************************)
EXTENDS Integers, Sequences, FiniteSets, TLC

(***************************************************************************)
(* Bounds of the model.                                                    *)
(***************************************************************************)
\* longest source, in lines, compiled on a fresh compiler instance
MaxLines == 3
\* longest source, in lines, of each of two compilations on one instance
MaxReuseLines == 1

(***************************************************************************)
(* str methods                                                             *)
(***************************************************************************)
NL == "\n"

\* str.isspace for one character
IsSpace(c) == c \in {" ", "\t", NL}

DropFirst(s, n) == SubSeq(s, n + 1, Len(s))

\* the position of the first occurrence of character c in s, 0 when absent
RECURSIVE IndexFrom(_, _, _)
IndexFrom(s, c, i) ==
    IF i > Len(s) THEN 0
    ELSE IF s[i] = c THEN i
    ELSE IndexFrom(s, c, i + 1)

Find(s, c) == IndexFrom(s, c, 1)

RECURSIVE LStrip(_)
LStrip(s) ==
    IF s # << >> /\ IsSpace(Head(s)) THEN LStrip(Tail(s)) ELSE s

RECURSIVE RStrip(_)
RStrip(s) ==
    IF s # << >> /\ IsSpace(s[Len(s)]) THEN RStrip(SubSeq(s, 1, Len(s) - 1)) ELSE s

\* s.strip()
Strip(s) == RStrip(LStrip(s))

RECURSIVE LStripChar(_, _)
LStripChar(s, c) ==
    IF s # << >> /\ Head(s) = c THEN LStripChar(Tail(s), c) ELSE s

RECURSIVE RStripChar(_, _)
RStripChar(s, c) ==
    IF s # << >> /\ s[Len(s)] = c THEN RStripChar(SubSeq(s, 1, Len(s) - 1), c) ELSE s

\* s.strip(c): every leading and every trailing c is removed
StripChar(s, c) == RStripChar(LStripChar(s, c), c)

\* s.split(c): the pieces between the occurrences of c, at least one piece
RECURSIVE SplitOn(_, _)
\* k is the position of the first c in s
SplitAt(s, c, k) ==
    IF k = 0 THEN << s >>
    ELSE << SubSeq(s, 1, k - 1) >> \o SplitOn(DropFirst(s, k), c)

SplitOn(s, c) == SplitAt(s, c, Find(s, c))

\* the length of the longest prefix of s holding no whitespace
RECURSIVE WordLen(_, _)
WordLen(s, i) ==
    IF i > Len(s) \/ IsSpace(s[i]) THEN i - 1 ELSE WordLen(s, i + 1)

\* s.split(): the maximal runs of non-whitespace characters
RECURSIVE SplitWs(_)
\* t starts with a word of n characters
TakeWord(t, n) == << SubSeq(t, 1, n) >> \o SplitWs(DropFirst(t, n))

SplitWords(t) == IF t = << >> THEN << >> ELSE TakeWord(t, WordLen(t, 1))

SplitWs(s) == SplitWords(LStrip(s))

UpperChar(c) ==
    CASE c = "a" -> "A" [] c = "b" -> "B" [] c = "c" -> "C" [] c = "d" -> "D"
      [] c = "e" -> "E" [] c = "f" -> "F" [] c = "g" -> "G" [] c = "h" -> "H"
      [] c = "i" -> "I" [] c = "j" -> "J" [] c = "k" -> "K" [] c = "l" -> "L"
      [] c = "m" -> "M" [] c = "n" -> "N" [] c = "o" -> "O" [] c = "p" -> "P"
      [] c = "q" -> "Q" [] c = "r" -> "R" [] c = "s" -> "S" [] c = "t" -> "T"
      [] c = "u" -> "U" [] c = "v" -> "V" [] c = "w" -> "W" [] c = "x" -> "X"
      [] c = "y" -> "Y" [] c = "z" -> "Z" [] OTHER -> c

\* s.upper()
Upper(s) == [i \in 1..Len(s) |-> UpperChar(s[i])]

StartsWith(s, p) == Len(s) >= Len(p) /\ SubSeq(s, 1, Len(p)) = p

(***************************************************************************)
(* int(s, base) and format(n, '05b')                                       *)
(***************************************************************************)
\* the value of one character as a digit; 99, above every base, when it is none
DigitOf(c) ==
    CASE c = "0" -> 0 [] c = "1" -> 1 [] c = "2" -> 2 [] c = "3" -> 3
      [] c = "4" -> 4 [] c = "5" -> 5 [] c = "6" -> 6 [] c = "7" -> 7
      [] c = "8" -> 8 [] c = "9" -> 9
      [] c \in {"a", "A"} -> 10 [] c \in {"b", "B"} -> 11
      [] c \in {"c", "C"} -> 12 [] c \in {"d", "D"} -> 13
      [] c \in {"e", "E"} -> 14 [] c \in {"f", "F"} -> 15
      [] OTHER -> 99

AllDigits(s, base) == s # << >> /\ \A i \in 1..Len(s) : DigitOf(s[i]) < base

RECURSIVE DigitsValue(_, _)
DigitsValue(s, base) ==
    IF s = << >> THEN 0
    ELSE DigitsValue(SubSeq(s, 1, Len(s) - 1), base) * base + DigitOf(s[Len(s)])

\* the base prefix int(s, base) accepts and skips
BasePrefix(s, base) ==
    IF base = 16 /\ (StartsWith(s, <<"0", "x">>) \/ StartsWith(s, <<"0", "X">>)) THEN 2
    ELSE IF base = 2 /\ (StartsWith(s, <<"0", "b">>) \/ StartsWith(s, <<"0", "B">>)) THEN 2
    ELSE 0

\* int(s, base) for a str without sign, underscore or whitespace:
\* ok is FALSE where Python raises ValueError
ParseDigits(digits, base) ==
    IF AllDigits(digits, base)
    THEN [ok |-> TRUE, val |-> DigitsValue(digits, base)]
    ELSE [ok |-> FALSE, val |-> 0]

PyInt(s, base) == ParseDigits(DropFirst(s, BasePrefix(s, base)), base)

RECURSIVE Bin(_)
Bin(n) ==
    IF n < 2 THEN << IF n = 1 THEN "1" ELSE "0" >>
    ELSE Bin(n \div 2) \o << IF n % 2 = 1 THEN "1" ELSE "0" >>

RECURSIVE ZeroFill(_, _)
ZeroFill(s, width) ==
    IF Len(s) >= width THEN s ELSE ZeroFill(<<"0">> \o s, width)

OperandWidth == 5

\* format(n, '05b') for n >= 0: at least five binary digits, more when n > 31
Format05b(n) == ZeroFill(Bin(n), OperandWidth)

(***************************************************************************)
(* The instruction set (AssemblyCompiler.__init__)                         *)
(***************************************************************************)
NOP == <<"N","O","P">>
JMP == <<"J","M","P">>
JEQ == <<"J","E","Q">>
STORE == <<"S","T","O","R","E">>
CMP == <<"C","M","P">>
OUT == <<"O","U","T">>
IN_ == <<"I","N">>
MOV == <<"M","O","V">>
HALT == <<"H","A","L","T">>
MOVE_UP == <<"M","O","V","E","_","U","P">>
MOVE_DOWN == <<"M","O","V","E","_","D","O","W","N">>
SCORE_INCREMENT == <<"S","C","O","R","E","_","I","N","C","R","E","M","E","N","T">>
SPAWN_OBSTACLE == <<"S","P","A","W","N","_","O","B","S","T","A","C","L","E">>
GAME_OVER == <<"G","A","M","E","_","O","V","E","R">>
START_GAME == <<"S","T","A","R","T","_","G","A","M","E">>
TITLE_SCREEN == <<"T","I","T","L","E","_","S","C","R","E","E","N">>
\* named by second_pass only; no key of the instruction set
SPAWN_FISH == <<"S","P","A","W","N","_","F","I","S","H">>
ORG == <<"O","R","G">>

\* self.instructions: mnemonic -> 4-bit opcode
instructions ==
    (NOP :> <<"0","0","0","0">>) @@ (JMP :> <<"0","0","0","1">>) @@
    (JEQ :> <<"0","0","1","0">>) @@ (STORE :> <<"0","0","1","1">>) @@
    (CMP :> <<"0","1","0","0">>) @@ (OUT :> <<"0","1","0","1">>) @@
    (IN_ :> <<"0","1","1","0">>) @@ (MOV :> <<"0","1","1","1">>) @@
    (HALT :> <<"1","0","0","0">>) @@ (MOVE_UP :> <<"1","0","0","1">>) @@
    (MOVE_DOWN :> <<"1","0","1","0">>) @@ (SCORE_INCREMENT :> <<"1","0","1","1">>) @@
    (SPAWN_OBSTACLE :> <<"1","1","0","0">>) @@ (GAME_OVER :> <<"1","1","0","1">>) @@
    (START_GAME :> <<"1","1","1","0">>) @@ (TITLE_SCREEN :> <<"1","1","1","1">>)

(***************************************************************************)
(* parse_line                                                              *)
(***************************************************************************)
\* parts = line.split(): the instruction and its arguments
ParseParts(label, parts) ==
    [label |-> label,
     instruction |-> Upper(parts[1]),
     args |-> [i \in 1..(Len(parts) - 1) |-> StripChar(parts[i + 1], ",")]]

\* line is what follows the label, stripped
ParseInstruction(label, line) ==
    IF line = << >> THEN [label |-> label, instruction |-> << >>, args |-> << >>]
    ELSE ParseParts(label, SplitWs(line))

\* k is the position of the first ':' in line, 0 when it has none
ParseLabel(line, k) ==
    IF k # 0
    THEN ParseInstruction(Strip(SubSeq(line, 1, k - 1)), Strip(DropFirst(line, k)))
    ELSE ParseInstruction(<< >>, line)

\* line is the raw line without its comment, stripped
ParseStripped(line) ==
    IF line = << >> THEN [label |-> << >>, instruction |-> << >>, args |-> << >>]
    ELSE ParseLabel(line, Find(line, ":"))

parse_line(raw) == ParseStripped(Strip(Head(SplitOn(raw, ";"))))

(***************************************************************************)
(* Exceptions: the class raised, the line number an "Error on line N: "    *)
(* prefix carries (0 when the message has no such prefix), the message's   *)
(* format string and the value formatted into it.                          *)
(***************************************************************************)
NoError == [exc |-> "", line |-> 0, text |-> "", arg |-> << >>]

ValueError(text, arg) == [exc |-> "ValueError", line |-> 0, text |-> text, arg |-> arg]

\* raise Exception(f"Error on line {line_num}: {e}")
ErrorOnLine(line_num, e) ==
    [exc |-> "Exception", line |-> line_num, text |-> e.text, arg |-> e.arg]

Returned(bits) == [bits |-> bits, error |-> NoError]
Raised(e) == [bits |-> << >>, error |-> e]

(***************************************************************************)
(* resolve_argument                                                        *)
(***************************************************************************)
InRange(val) == 0 <= val /\ val <= 31

\* the try block of one numeric form, v being int(arg, base)
TryRange(v, arg, text) ==
    IF ~v.ok THEN Raised(ValueError("invalid literal for int()", arg))
    ELSE IF InRange(v.val) THEN Returned(Format05b(v.val))
    ELSE Raised(ValueError(text, arg))

\* try: ... except ValueError: raise ValueError(text), t being the try block's outcome
ExceptValueError(t, text, arg) ==
    IF t.error = NoError THEN t ELSE Raised(ValueError(text, arg))

resolve_argument(labels_, arg) ==
    IF arg \in DOMAIN labels_
    THEN Returned(Format05b(labels_[arg]))
    ELSE IF StartsWith(arg, <<"0","x">>) \/ StartsWith(arg, <<"0","X">>)
    THEN ExceptValueError(
             TryRange(PyInt(arg, 16), arg, "Hex value {arg} out of range (0-31)"),
             "Invalid hex number: {arg}", arg)
    ELSE IF StartsWith(arg, <<"0","b">>) \/ StartsWith(arg, <<"0","B">>)
    THEN ExceptValueError(
             TryRange(PyInt(arg, 2), arg, "Binary value {arg} out of range (0-31)"),
             "Invalid binary number: {arg}", arg)
    \* except ValueError: pass, then the raise that ends the function
    ELSE ExceptValueError(
             TryRange(PyInt(arg, 10), arg, "Decimal value {arg} out of range (0-31)"),
             "Cannot resolve argument: {arg}", arg)

(***************************************************************************)
(* first_pass: the body of its loop for one line, and the whole loop       *)
(***************************************************************************)
\* int(self.resolve_argument(args[0]), 2), r being what resolve_argument gave
OrgResolved(r) ==
    IF r.error # NoError THEN [addr |-> 0, error |-> r.error]
    ELSE [addr |-> PyInt(r.bits, 2).val, error |-> NoError]

\* the ORG branch of either pass: the address the directive sets
org_address(labels_, args) ==
    IF Len(args) # 1
    THEN [addr |-> 0,
          error |-> ValueError("ORG directive requires exactly one argument", << >>)]
    ELSE OrgResolved(resolve_argument(labels_, args[1]))

\* self.labels[label] = self.current_address
SetLabel(labels_, label, addr) ==
    [x \in DOMAIN labels_ \cup {label} |-> IF x = label THEN addr ELSE labels_[x]]

\* the ORG branch of first_pass, o being the address the directive sets
FirstPassOrg(labels_, addr, o) ==
    IF o.error # NoError
    THEN [labels |-> labels_, current_address |-> addr, error |-> o.error]
    ELSE [labels |-> labels_, current_address |-> o.addr, error |-> NoError]

\* the loop body of first_pass, p being the parsed line
FirstPassParsed(labels_, addr, p) ==
    IF p.instruction = ORG
    THEN FirstPassOrg(labels_, addr, org_address(labels_, p.args))
    ELSE [labels |-> IF p.label # << >> THEN SetLabel(labels_, p.label, addr)
                     ELSE labels_,
          current_address |-> IF p.instruction # << >> THEN addr + 1 ELSE addr,
          error |-> NoError]

first_pass_line(labels_, addr, raw) == FirstPassParsed(labels_, addr, parse_line(raw))

RECURSIVE FirstPassFrom(_, _, _, _)
\* r is what the loop body made of line i
FirstPassNext(r, lines_, i) ==
    IF r.error # NoError THEN r
    ELSE FirstPassFrom(r.labels, r.current_address, lines_, i + 1)

FirstPassFrom(labels_, addr, lines_, i) ==
    IF i > Len(lines_)
    THEN [labels |-> labels_, current_address |-> addr, error |-> NoError]
    ELSE FirstPassNext(first_pass_line(labels_, addr, lines_[i]), lines_, i)

first_pass(labels_, lines_) == FirstPassFrom(labels_, 0, lines_, 1)

(***************************************************************************)
(* second_pass: the body of its loop for one line, and the whole loop      *)
(***************************************************************************)
\* a variant: the first list names SPAWN_OBSTACLE where the code names SPAWN_FISH
ZeroArgInstructions_Obstacle ==
    {NOP, HALT, MOVE_UP, MOVE_DOWN, SCORE_INCREMENT, SPAWN_OBSTACLE, GAME_OVER,
     START_GAME, TITLE_SCREEN}

\* the mnemonics second_pass encodes without an operand
ZeroArgInstructions ==
    {NOP, HALT, MOVE_UP, MOVE_DOWN, SCORE_INCREMENT, SPAWN_FISH, GAME_OVER,
     START_GAME, TITLE_SCREEN}

\* the mnemonics second_pass encodes with one operand
OneArgInstructions == {JMP, JEQ, OUT, IN_} \cup {CMP, MOV, STORE}

NoWord == [emit |-> FALSE, word |-> << >>, error |-> NoError]

\* a variant: the `if args` test of the first branch is missing
encode_zero_arg_Unchecked(instruction, args) ==
    [NoWord EXCEPT
        !.emit = TRUE,
        !.word = instructions[instruction] \o <<"0","0","0","0","0">>]

\* the word of a mnemonic of the first list
encode_zero_arg(instruction, args) ==
    IF args # << >>
    THEN [NoWord EXCEPT
             !.error = ValueError("{instruction} takes no arguments", instruction)]
    ELSE [NoWord EXCEPT
             !.emit = TRUE,
             !.word = instructions[instruction] \o <<"0","0","0","0","0">>]

\* opcode + arg_bits, r being what resolve_argument gave
EncodeResolved(instruction, r) ==
    IF r.error # NoError THEN [NoWord EXCEPT !.error = r.error]
    ELSE [NoWord EXCEPT !.emit = TRUE, !.word = instructions[instruction] \o r.bits]

\* the word of a mnemonic of the second or third list
encode_one_arg(labels_, instruction, args) ==
    IF Len(args) # 1
    THEN [NoWord EXCEPT
             !.error = ValueError("{instruction} requires exactly 1 argument",
                                  instruction)]
    ELSE EncodeResolved(instruction, resolve_argument(labels_, args[1]))

\* the if / elif chain on the instruction format: a mnemonic of no list is
\* given no word and no error
encode(labels_, instruction, args) ==
    IF instruction \in ZeroArgInstructions THEN encode_zero_arg(instruction, args)
    ELSE IF instruction \in OneArgInstructions
    THEN encode_one_arg(labels_, instruction, args)
    ELSE NoWord

\* a variant: the ORG branch of second_pass validates its operand and leaves
\* self.current_address as it is
SecondPassOrg_KeepsCounter(addr, code, num, o) ==
    IF o.error # NoError
    THEN [current_address |-> addr, machine_code |-> code,
          error |-> ErrorOnLine(num, o.error)]
    ELSE [current_address |-> addr, machine_code |-> code, error |-> NoError]

\* the ORG branch of second_pass, o being the address the directive sets
SecondPassOrg(addr, code, num, o) ==
    IF o.error # NoError
    THEN [current_address |-> addr, machine_code |-> code,
          error |-> ErrorOnLine(num, o.error)]
    ELSE [current_address |-> o.addr, machine_code |-> code, error |-> NoError]

\* the append and the increment that end the loop body, e being the encoding
SecondPassEmit(addr, code, num, e) ==
    IF e.error # NoError
    THEN [current_address |-> addr, machine_code |-> code,
          error |-> ErrorOnLine(num, e.error)]
    ELSE [current_address |-> addr + 1,
          machine_code |-> IF e.emit THEN Append(code, <<addr, e.word>>) ELSE code,
          error |-> NoError]

\* the loop body of second_pass, p being the parsed line
SecondPassParsed(labels_, addr, code, p, num) ==
    IF p.instruction = ORG
    THEN SecondPassOrg(addr, code, num, org_address(labels_, p.args))
    ELSE IF p.instruction = << >>
    THEN [current_address |-> addr, machine_code |-> code, error |-> NoError]
    ELSE IF p.instruction \notin DOMAIN instructions
    THEN [current_address |-> addr, machine_code |-> code,
          error |-> ErrorOnLine(num, ValueError("Unknown instruction: {instruction}",
                                                p.instruction))]
    ELSE SecondPassEmit(addr, code, num, encode(labels_, p.instruction, p.args))

second_pass_line(labels_, addr, code, raw, num) ==
    SecondPassParsed(labels_, addr, code, parse_line(raw), num)

RECURSIVE SecondPassFrom(_, _, _, _, _)
\* r is what the loop body made of line i
SecondPassNext(labels_, r, lines_, i) ==
    IF r.error # NoError THEN r
    ELSE SecondPassFrom(labels_, r.current_address, r.machine_code, lines_, i + 1)

SecondPassFrom(labels_, addr, code, lines_, i) ==
    IF i > Len(lines_)
    THEN [current_address |-> addr, machine_code |-> code, error |-> NoError]
    ELSE SecondPassNext(labels_,
                        second_pass_line(labels_, addr, code, lines_[i], i),
                        lines_, i)

second_pass(labels_, lines_) == SecondPassFrom(labels_, 0, << >>, lines_, 1)

(***************************************************************************)
(* compile                                                                 *)
(***************************************************************************)
\* assembly_code.strip().split('\n')
SourceLines(assembly_code) == SplitOn(Strip(assembly_code), NL)

\* what a call returns or raises
ReturnValue(code) == [status |-> "returned", machine_code |-> code, error |-> NoError]
RaisedError(e) == [status |-> "raised", machine_code |-> << >>, error |-> e]
NoResult == [status |-> "none", machine_code |-> << >>, error |-> NoError]

\* s is what second_pass gave
CompileSecond(s) ==
    IF s.error # NoError THEN RaisedError(s.error) ELSE ReturnValue(s.machine_code)

\* f is what first_pass gave
CompileFirst(f, lines_) ==
    IF f.error # NoError THEN RaisedError(f.error)
    ELSE CompileSecond(second_pass(f.labels, lines_))

CompileLines(labels_, lines_) == CompileFirst(first_pass(labels_, lines_), lines_)

\* the outcome of compile on an instance whose label table is labels_
compile(labels_, assembly_code) == CompileLines(labels_, SourceLines(assembly_code))

\* self.labels = {}
EmptyLabels == [x \in {} |-> 0]

(***************************************************************************)
(* The source texts compiled: every sequence of at most MaxLines lines of  *)
(* LineAlphabet on a fresh instance, and every pair of sources of at most  *)
(* MaxReuseLines lines of ReuseAlphabet, one after the other, on one       *)
(* instance.                                                               *)
(***************************************************************************)
\* ``: an empty line
Blank == << >>
\* ` ;c`: a comment alone
CommentOnly == <<" ",";","c">>
\* `T:`: a label alone
LabelOnly == <<"T",":">>
\* `T: NOP`: a label and a zero-argument instruction
LabelNop == <<"T",":"," ","N","O","P">>
\* `31: NOP`: a label with the shape of a decimal literal
NumLabelNop == <<"3","1",":"," ","N","O","P">>
\* `ORG 31`: ORG with a literal operand
OrgLiteral == <<"O","R","G"," ","3","1">>
\* `ORG T`: ORG with a label operand
OrgLabel == <<"O","R","G"," ","T">>
\* `jmp T,`: a lower-case mnemonic, a label operand, a trailing comma
JmpLabel == <<"j","m","p"," ","T",",">>
\* `MOV 0x20`: a hexadecimal literal above 31
MovHexOut == <<"M","O","V"," ","0","x","2","0">>
\* `MOV 0x1F ;c`: a hexadecimal literal within 0..31, then a comment
MovHexIn == <<"M","O","V"," ","0","x","1","F"," ",";","c">>
\* `HALT 5`: a zero-argument mnemonic with an argument
HaltArg == <<"H","A","L","T"," ","5">>
\* `MOV`: a one-argument mnemonic without argument
MovNoArg == <<"M","O","V">>
\* `SPAWN_OBSTACLE 1`: the mnemonic of no arity list
SpawnObstacle == <<"S","P","A","W","N","_","O","B","S","T","A","C","L","E"," ","1">>
\* `SPAWN_OBSTACLE`: the mnemonic of no arity list, without argument
SpawnObstacleBare == <<"S","P","A","W","N","_","O","B","S","T","A","C","L","E">>
\* `SPAWN_FISH`: the name of the arity list that is no mnemonic
SpawnFish == <<"S","P","A","W","N","_","F","I","S","H">>

LineAlphabet ==
    {Blank, CommentOnly, LabelOnly, LabelNop, NumLabelNop, OrgLiteral, OrgLabel,
     JmpLabel, MovHexOut, MovHexIn, HaltArg, MovNoArg, SpawnObstacle, SpawnFish}

ReuseAlphabet ==
    {LabelNop, NumLabelNop, OrgLiteral, OrgLabel, JmpLabel, SpawnFish, SpawnObstacleBare}

Programs(alphabet, n) == UNION {[1..k -> alphabet] : k \in 0..n}

\* the lines of a program joined by line breaks
RECURSIVE Join(_)
Join(p) ==
    IF p = << >> THEN << >>
    ELSE IF Len(p) = 1 THEN p[1]
    ELSE p[1] \o <<NL>> \o Join(Tail(p))

Workloads ==
    {<<Join(p)>> : p \in Programs(LineAlphabet, MaxLines)}
        \cup {<<Join(a), Join(b)>> : a \in Programs(ReuseAlphabet, MaxReuseLines),
                                     b \in Programs(ReuseAlphabet, MaxReuseLines)}

(***************************************************************************)
(* The state: one compiler instance and the calls of compile made on it    *)
(***************************************************************************)
VARIABLES
    todo,             \* the source texts still to be passed to compile, in order
    assembly_code,    \* the argument of the current or last call of compile
    lines,            \* compile's local `lines`
    labels,           \* self.labels
    current_address,  \* self.current_address
    machine_code,     \* second_pass's local `machine_code`
    line_num,         \* the position of the running pass in `lines`, from 1
    pc,               \* "idle", "first_pass", "second_pass" or "done"
    result,           \* what the last call of compile returned or raised
    run,              \* the number of calls of compile made on the instance
    fp_trace,         \* per line first_pass took up: <<counter before, counter after>>
    sp_trace,         \* the same for second_pass
    emit_line         \* per pair of machine_code: the number of the line that appended it

vars == <<todo, assembly_code, lines, labels, current_address, machine_code,
          line_num, pc, result, run, fp_trace, sp_trace, emit_line>>

\* AssemblyCompiler(): an empty label table, the counter at 0
Init ==
    /\ todo \in Workloads
    /\ assembly_code = << >>
    /\ lines = << >>
    /\ labels = EmptyLabels
    /\ current_address = 0
    /\ machine_code = << >>
    /\ line_num = 1
    /\ pc = "idle"
    /\ result = NoResult
    /\ run = 0
    /\ fp_trace = << >>
    /\ sp_trace = << >>
    /\ emit_line = << >>

\* compile is called: the text is split into lines and first_pass resets the counter
Compile ==
    /\ pc \in {"idle", "done"}
    /\ todo # << >>
    /\ assembly_code' = Head(todo)
    /\ todo' = Tail(todo)
    /\ lines' = SourceLines(Head(todo))
    /\ current_address' = 0
    /\ machine_code' = << >>
    /\ line_num' = 1
    /\ pc' = "first_pass"
    /\ result' = NoResult
    /\ run' = run + 1
    /\ fp_trace' = << >>
    /\ sp_trace' = << >>
    /\ emit_line' = << >>
    /\ UNCHANGED labels

\* one iteration of first_pass's loop that raises nothing
FirstPassStore(r) ==
    /\ labels' = r.labels
    /\ current_address' = r.current_address
    /\ fp_trace' = Append(fp_trace, <<current_address, r.current_address>>)

FirstPassLine ==
    /\ pc = "first_pass"
    /\ line_num <= Len(lines)
    /\ first_pass_line(labels, current_address, lines[line_num]).error = NoError
    /\ FirstPassStore(first_pass_line(labels, current_address, lines[line_num]))
    /\ line_num' = line_num + 1
    /\ UNCHANGED <<todo, assembly_code, lines, machine_code, pc, result, run,
                   sp_trace, emit_line>>

\* one iteration of first_pass's loop that raises: compile ends with the ValueError
FirstPassRaise ==
    /\ pc = "first_pass"
    /\ line_num <= Len(lines)
    /\ first_pass_line(labels, current_address, lines[line_num]).error # NoError
    /\ FirstPassStore(first_pass_line(labels, current_address, lines[line_num]))
    /\ result' = RaisedError(
                     first_pass_line(labels, current_address, lines[line_num]).error)
    /\ pc' = "done"
    /\ UNCHANGED <<todo, assembly_code, lines, machine_code, line_num, run,
                   sp_trace, emit_line>>

\* first_pass returns and second_pass starts: an empty list, the counter back at 0
FirstPassEnd ==
    /\ pc = "first_pass"
    /\ line_num > Len(lines)
    /\ pc' = "second_pass"
    /\ machine_code' = << >>
    /\ current_address' = 0
    /\ line_num' = 1
    /\ UNCHANGED <<todo, assembly_code, lines, labels, result, run, fp_trace,
                   sp_trace, emit_line>>

\* one iteration of second_pass's loop that raises nothing
SecondPassStore(r) ==
    /\ current_address' = r.current_address
    /\ sp_trace' = Append(sp_trace, <<current_address, r.current_address>>)
    /\ IF r.error # NoError
       THEN /\ result' = RaisedError(r.error)
            /\ UNCHANGED <<machine_code, emit_line>>
       ELSE /\ machine_code' = r.machine_code
            /\ emit_line' = IF Len(r.machine_code) > Len(machine_code)
                            THEN Append(emit_line, line_num) ELSE emit_line
            /\ UNCHANGED result

\* the loop body of second_pass on the line the pass has reached
SecondPassHere ==
    second_pass_line(labels, current_address, machine_code, lines[line_num], line_num)

SecondPassLine ==
    /\ pc = "second_pass"
    /\ line_num <= Len(lines)
    /\ SecondPassHere.error = NoError
    /\ SecondPassStore(SecondPassHere)
    /\ line_num' = line_num + 1
    /\ UNCHANGED <<todo, assembly_code, lines, labels, pc, run, fp_trace>>

\* one iteration of second_pass's loop that raises: compile ends with the
\* Exception, and the list of the pairs appended so far is dropped
SecondPassRaise ==
    /\ pc = "second_pass"
    /\ line_num <= Len(lines)
    /\ SecondPassHere.error # NoError
    /\ SecondPassStore(SecondPassHere)
    /\ pc' = "done"
    /\ UNCHANGED <<todo, assembly_code, lines, labels, line_num, run, fp_trace>>

\* second_pass returns machine_code, and compile returns it
SecondPassEnd ==
    /\ pc = "second_pass"
    /\ line_num > Len(lines)
    /\ result' = ReturnValue(machine_code)
    /\ pc' = "done"
    /\ UNCHANGED <<todo, assembly_code, lines, labels, current_address, machine_code,
                   line_num, run, fp_trace, sp_trace, emit_line>>

Next ==
    \/ Compile
    \/ FirstPassLine
    \/ FirstPassRaise
    \/ FirstPassEnd
    \/ SecondPassLine
    \/ SecondPassRaise
    \/ SecondPassEnd

Spec == Init /\ [][Next]_vars

(***************************************************************************)
(* Vocabulary of the properties                                            *)
(***************************************************************************)
\* line i of `lines`, parsed
Parsed(i) == parse_line(lines[i])

\* the mnemonics the specification gives the arity class ZERO_ARG and ONE_ARG
ZeroArgMnemonics ==
    {NOP, HALT, MOVE_UP, MOVE_DOWN, SCORE_INCREMENT, GAME_OVER, START_GAME,
     TITLE_SCREEN}
OneArgMnemonics == {JMP, JEQ, OUT, IN_, CMP, MOV, STORE}

\* the value of the bits that follow a word's 4-bit opcode
OperandBits(word) == SubSeq(word, 5, Len(word))
\* the value of a word's low five bits
LowFive(word) == PyInt(SubSeq(word, Len(word) - 4, Len(word)), 2).val

\* a token read as a numeric literal, whatever the label table holds
Literal(tok) ==
    IF StartsWith(tok, <<"0","x">>) \/ StartsWith(tok, <<"0","X">>) THEN PyInt(tok, 16)
    ELSE IF StartsWith(tok, <<"0","b">>) \/ StartsWith(tok, <<"0","B">>)
    THEN PyInt(tok, 2)
    ELSE PyInt(tok, 10)

IsLiteralInRange(tok) == Literal(tok).ok /\ Literal(tok).val \in 0..31

\* the number of the line on which the last call of compile raised
FailingLine ==
    IF result.error.exc = "Exception" THEN result.error.line ELSE Len(fp_trace)

\* C1: after first_pass and after a successful compile every address of the
\* label table lies in 0..31, and so does every operand of an emitted word
C1_FiveBitAddresses ==
    (pc = "second_pass" \/ result.status = "returned") =>
        /\ \A l \in DOMAIN labels : labels[l] \in 0..31
        /\ \A k \in 1..Len(machine_code) :
               PyInt(OperandBits(machine_code[k][2]), 2).val \in 0..31

\* C2: on reaching line i, second_pass holds the counter value first_pass held
\* on reaching line i
C2_PassesAgree ==
    \A i \in 1..Len(sp_trace) :
        i <= Len(fp_trace) => sp_trace[i][1] = fp_trace[i][1]

\* C3: whatever the instance compiled before, compile gives the outcome a
\* freshly constructed instance gives for the same text
C3_RunScoped ==
    pc = "done" => result = compile(EmptyLabels, assembly_code)

\* line j defines the label: first_pass records it there
DefinesLabel(j, name) ==
    /\ name # << >>
    /\ Parsed(j).label = name
    /\ Parsed(j).instruction # ORG

\* C4: the 5-bit operand of the word of a one-argument instruction that names a
\* label defined on a later line is the address the label table holds for it
C4_ForwardReference ==
    result.status = "returned" =>
        \A k \in 1..Len(machine_code) :
            LET i == emit_line[k]
                p == Parsed(i)
            IN  (/\ p.instruction \in OneArgMnemonics
                 /\ Len(p.args) = 1
                 /\ \E j \in (i + 1)..Len(lines) : DefinesLabel(j, p.args[1]))
                => /\ p.args[1] \in DOMAIN labels
                   /\ LowFive(machine_code[k][2]) = labels[p.args[1]]

\* the operand the specification's resolution order gives a token
ResolvedOperand(tok) ==
    IF tok \in DOMAIN labels THEN labels[tok] ELSE Literal(tok).val

\* C5: every returned word has exactly 9 bits, the mnemonic's opcode and then
\* five zero bits (zero-argument) or the resolved operand in five bits
C5_NineBitWords ==
    result.status = "returned" =>
        \A k \in 1..Len(result.machine_code) :
            LET word == result.machine_code[k][2]
                p == Parsed(emit_line[k])
            IN  /\ Len(word) = 9
                /\ SubSeq(word, 1, 4) = instructions[p.instruction]
                /\ p.instruction \in ZeroArgMnemonics
                       => SubSeq(word, 5, 9) = <<"0","0","0","0","0">>
                /\ p.instruction \in OneArgMnemonics
                       => SubSeq(word, 5, 9) = Format05b(ResolvedOperand(p.args[1]))

\* line m is blank, a comment alone or a label alone
Passive(m) == Parsed(m).instruction = << >>
\* line m carries an instruction of one of the two arity classes
Encodable(m) == Parsed(m).instruction \in ZeroArgMnemonics \cup OneArgMnemonics
\* line i is an ORG line whose single operand reads as a literal within 0..31
OrgLiteralLine(i) ==
    /\ Parsed(i).instruction = ORG
    /\ Len(Parsed(i).args) = 1
    /\ IsLiteralInRange(Parsed(i).args[1])
\* between the ORG line i and line j there are only encodable and passive lines
PlainRun(i, j) == \A m \in (i + 1)..(j - 1) : Encodable(m) \/ Passive(m)

\* the operand of the ORG line i is no key of the label table
NotALabel(i) == Parsed(i).args[1] \notin DOMAIN labels
\* the ORG lines a statement covers: all, or those whose operand is no label
Covered(i, unlessLabel) == unlessLabel => NotALabel(i)

\* what C6 says of the ORG lines covered
OrgAddressing(unlessLabel) ==
    /\ \A k \in 1..Len(emit_line) : Parsed(emit_line[k]).instruction # ORG
    /\ \A i \in 1..Len(sp_trace) :
           /\ (OrgLiteralLine(i) /\ Covered(i, unlessLabel))
                  => sp_trace[i][2] = Literal(Parsed(i).args[1]).val
           /\ Passive(i) => sp_trace[i][2] = sp_trace[i][1]
    /\ \A k \in 1..Len(machine_code) :
           \A i \in 1..(emit_line[k] - 1) :
               (OrgLiteralLine(i) /\ Covered(i, unlessLabel) /\ PlainRun(i, emit_line[k]))
                   => machine_code[k][1] =
                          Literal(Parsed(i).args[1]).val
                          + Cardinality({m \in (i + 1)..(emit_line[k] - 1) : Encodable(m)})

\* C6 as stated: an ORG line with a literal operand v sets the counter to v and
\* emits nothing, the encodable instructions after it are emitted at v, v+1, ...,
\* and passive lines leave the counter alone
C6_OrgSetsCounter == OrgAddressing(FALSE)

\* C6 as amended: the same of an ORG line whose literal operand is no key of the
\* label table
C6_OrgSetsCounterUnlessLabel == OrgAddressing(TRUE)

\* C6, reached: ORG 31, a comment, then an instruction emitted at 31
C6_Witness ==
    /\ result.status = "returned"
    /\ lines = <<OrgLiteral, CommentOnly, LabelNop>>
    /\ labels = (<<"T">> :> 31)
    /\ machine_code = << <<31, <<"0","0","0","0","0","0","0","0","0">>>> >>

\* C7: a failure in second_pass returns no pair, and its message carries the
\* number, among the lines of the source text, of the first line that fails
C7_FailFast ==
    (pc = "done" /\ result.error.exc = "Exception") =>
        /\ result.machine_code = << >>
        /\ result.error.line
               = second_pass(labels, SplitOn(assembly_code, NL)).error.line

OutOfRangeTexts ==
    {"Hex value {arg} out of range (0-31)", "Binary value {arg} out of range (0-31)",
     "Decimal value {arg} out of range (0-31)"}
ResolverTexts ==
    OutOfRangeTexts \cup {"Invalid hex number: {arg}", "Invalid binary number: {arg}",
                          "Cannot resolve argument: {arg}"}

\* the token starts with 0 and one of the two letters
HasPrefix(tok, lower, upper) ==
    StartsWith(tok, <<"0", lower>>) \/ StartsWith(tok, <<"0", upper>>)

\* every pair appended for a one-argument instruction whose operand is a literal
\* within 0..31, and no label, carries the literal's value
LiteralsResolve ==
    \A k \in 1..Len(machine_code) :
        LET p == Parsed(emit_line[k])
        IN  (/\ p.instruction \in OneArgMnemonics
             /\ Len(p.args) = 1
             /\ p.args[1] \notin DOMAIN labels
             /\ IsLiteralInRange(p.args[1]))
            => OperandBits(machine_code[k][2]) = Format05b(Literal(p.args[1]).val)

\* C8: a literal outside 0..31 fails as out of range, a 0x / 0b token that does
\* not parse as invalid hex / binary, and only a token of no numeric form as
\* unresolvable; a literal within 0..31 resolves to its value
C8_ErrorKinds ==
    /\ LiteralsResolve
    /\ (result.status = "raised" /\ result.error.text \in ResolverTexts
         /\ result.error.arg \notin DOMAIN labels) =>
        LET tok == result.error.arg
            text == result.error.text
        IN  /\ (Literal(tok).ok /\ Literal(tok).val > 31) => text \in OutOfRangeTexts
            /\ (~Literal(tok).ok /\ HasPrefix(tok, "x", "X"))
                   => text = "Invalid hex number: {arg}"
            /\ (~Literal(tok).ok /\ HasPrefix(tok, "b", "B"))
                   => text = "Invalid binary number: {arg}"
            /\ text = "Cannot resolve argument: {arg}"
                   => ~Literal(tok).ok /\ ~HasPrefix(tok, "x", "X")
                          /\ ~HasPrefix(tok, "b", "B")

\* the line is one of the three malformed shapes of C9
Malformed(p) ==
    /\ p.instruction # << >>
    /\ p.instruction # ORG
    /\ \/ p.instruction \notin DOMAIN instructions
       \/ p.instruction \in ZeroArgMnemonics /\ p.args # << >>
       \/ p.instruction \in OneArgMnemonics /\ Len(p.args) # 1

MalformedText(p) ==
    IF p.instruction \notin DOMAIN instructions THEN "Unknown instruction: {instruction}"
    ELSE IF p.instruction \in ZeroArgMnemonics THEN "{instruction} takes no arguments"
    ELSE "{instruction} requires exactly 1 argument"

\* C9: compile fails when any line has an unknown mnemonic, a zero-argument
\* mnemonic with arguments or a one-argument mnemonic without exactly one; no
\* such line appends a pair, and the line second_pass fails on is reported with
\* the error of its shape
C9_MalformedRejected ==
    /\ (pc = "done" /\ \E i \in 1..Len(lines) : Malformed(Parsed(i)))
           => result.status = "raised"
    /\ \A k \in 1..Len(emit_line) : ~Malformed(Parsed(emit_line[k]))
    /\ (result.error.exc = "Exception" /\ Malformed(Parsed(result.error.line)))
           => /\ result.error.text = MalformedText(Parsed(result.error.line))
              /\ result.error.arg = Parsed(result.error.line).instruction

\* C9, reached: the three shapes in one source, the first of them reported
C9_Witness ==
    /\ pc = "done"
    /\ lines = <<HaltArg, MovNoArg, SpawnFish>>
    /\ result.status = "raised"
    /\ result.error.line = 1
    /\ result.error.text = "{instruction} takes no arguments"

\* C10: a SPAWN_OBSTACLE line appends no pair and raises nothing, both passes
\* advance the counter by 1 for it, and the next line's pair is one address
\* higher; a SPAWN_FISH line that second_pass reaches is an unknown instruction
C10_SpawnObstacleGap ==
    /\ \A i \in 1..Len(fp_trace) :
           Parsed(i).instruction = SPAWN_OBSTACLE
               => fp_trace[i][2] = fp_trace[i][1] + 1
    /\ \A i \in 1..Len(sp_trace) :
           Parsed(i).instruction = SPAWN_OBSTACLE
               => /\ sp_trace[i][2] = sp_trace[i][1] + 1
                  /\ \A k \in 1..Len(emit_line) :
                         /\ emit_line[k] # i
                         /\ emit_line[k] = i + 1
                                => machine_code[k][1] = sp_trace[i][1] + 1
    /\ \A i \in 1..Len(lines) :
           (Parsed(i).instruction = SPAWN_OBSTACLE /\ result.status = "raised")
               => FailingLine # i
    /\ \A i \in 1..Len(sp_trace) :
           Parsed(i).instruction = SPAWN_FISH
               => /\ i = Len(sp_trace)
                  /\ result.status = "raised"
                  /\ result.error =
                         ErrorOnLine(i, ValueError("Unknown instruction: {instruction}",
                                                   SPAWN_FISH))

\* C10, reached: SPAWN_OBSTACLE with an argument at 0 left no pair, the next
\* instruction is at 1, and SPAWN_FISH on line 3 was rejected
C10_Witness ==
    /\ pc = "done"
    /\ lines = <<SpawnObstacle, LabelNop, SpawnFish>>
    /\ machine_code = << <<1, <<"0","0","0","0","0","0","0","0","0">>>> >>
    /\ result.error.line = 3

=============================================================================
